---- MODULE Spec2Model ----
(***************************************************************************)
(* universal-time: the set-once global time context (src/src/global.rs),   *)
(* Instant (src/src/instant.rs) and SystemTime (src/src/system.rs).        *)
(*                                                                         *)
(* Spec      : threads calling set_global_time_context,                    *)
(*             global_time_context, Instant::now and SystemTime::now under *)
(*             each build configuration of the crate.                      *)
(* FairSpec  : Spec with every thread scheduled fairly.                    *)
(* ValueSpec : the pure arithmetic of Instant and SystemTime applied to    *)
(*             every pair of bounded durations.                            *)
(* NowSpec   : one thread calling Instant::now and Instant::elapsed one    *)
(*             after another, against a clock that never goes back.        *)
(***************************************************************************)
EXTENDS Integers, FiniteSets, Sequences, TLC

(* ------------------------------ bounds --------------------------------- *)

\* Threads of control that call into the crate.
NumThreads == 2

\* Calls started over one run, all threads together.
MaxCalls == 3

\* Largest raw reading of the monotonic / wall time source, in nanoseconds.
MaxClock == 1

\* u64::MAX of Duration's seconds field, scaled down.
SecsMax == 3

\* Nanoseconds per second of Duration's sub-second field, scaled down.
NANOS_PER_SEC == 3

(* ------------------------- Option and Result --------------------------- *)

None == [kind |-> "None"]

Some(x) == [kind |-> "Some", v |-> x]

IsSome(o) == o.kind = "Some"

Ok(x) == [kind |-> "Ok", v |-> x]

Err(e) == [kind |-> "Err", v |-> e]

Panic(m) == [kind |-> "panic", msg |-> m]

NoRet == [kind |-> "none"]

IsPanic(x) == "kind" \in DOMAIN x /\ x.kind = "panic"

(* --------------------------- core Duration ----------------------------- *)

Dur(s, n) == [secs |-> s, nanos |-> n]

Durations == [secs : 0..SecsMax, nanos : 0..(NANOS_PER_SEC - 1)]

ZERO == Dur(0, 0)

DURATION_MAX == Dur(SecsMax, NANOS_PER_SEC - 1)

\* The duration as one number of nanoseconds (used by the properties only).
ToNanos(d) == d.secs * NANOS_PER_SEC + d.nanos

\* Duration::from_nanos
from_nanos(n) == Dur(n \div NANOS_PER_SEC, n % NANOS_PER_SEC)

\* derive(PartialOrd, Ord): lexicographic on (secs, nanos)
Duration_ge(x, y) ==
    \/ x.secs > y.secs
    \/ x.secs = y.secs /\ x.nanos >= y.nanos

\* Duration::checked_sub: subtract the seconds, borrow one second when the
\* nanoseconds do not suffice.
Duration_checked_sub(x, y) ==
    IF x.secs >= y.secs
    THEN LET secs == x.secs - y.secs IN
         IF x.nanos >= y.nanos
         THEN Some(Dur(secs, x.nanos - y.nanos))
         ELSE IF secs >= 1
              THEN Some(Dur(secs - 1, x.nanos + NANOS_PER_SEC - y.nanos))
              ELSE None
    ELSE None

\* Duration::saturating_sub
Duration_saturating_sub(x, y) ==
    LET r == Duration_checked_sub(x, y) IN
    IF IsSome(r) THEN r.v ELSE ZERO

\* impl Sub for Duration: checked_sub(..).expect(..)
Duration_sub(x, y) ==
    LET r == Duration_checked_sub(x, y) IN
    IF IsSome(r) THEN r.v ELSE Panic(<<"overflow when subtracting durations">>)

\* Duration::checked_add: add the seconds, carry one second out of the
\* nanoseconds, None past u64::MAX seconds.
Duration_checked_add(x, y) ==
    LET secs == x.secs + y.secs
        nanos == x.nanos + y.nanos
    IN  IF secs > SecsMax
        THEN None
        ELSE IF nanos >= NANOS_PER_SEC
             THEN IF secs + 1 > SecsMax
                  THEN None
                  ELSE Some(Dur(secs + 1, nanos - NANOS_PER_SEC))
             ELSE Some(Dur(secs, nanos))

(* ------------------------------ Instant -------------------------------- *)

from_ticks(ticks) == [ticks |-> ticks]

to_ticks(i) == i.ticks

Instants == {from_ticks(d) : d \in Durations}

\* A variant that subtracts with the panicking operator.
Instant_duration_since_unchecked(self, earlier) ==
    Duration_sub(self.ticks, earlier.ticks)

Instant_duration_since(self, earlier) ==
    Duration_saturating_sub(self.ticks, earlier.ticks)

\* A variant that measures from now back to self the wrong way round.
Instant_elapsed_reversed(self, now) == Instant_duration_since(self, now)

\* elapsed: Self::now().duration_since(*self), now what Self::now() returned
Instant_elapsed(self, now) == Instant_duration_since(now, self)

\* A variant that is absent for equal instants too.
Instant_checked_duration_since_strict(self, earlier) ==
    IF self.ticks = earlier.ticks
    THEN None
    ELSE Duration_checked_sub(self.ticks, earlier.ticks)

Instant_checked_duration_since(self, earlier) ==
    Duration_checked_sub(self.ticks, earlier.ticks)

\* A variant that stops at Duration::MAX instead of being absent.
Instant_checked_add_saturating(self, duration) ==
    LET r == Duration_checked_add(self.ticks, duration) IN
    IF IsSome(r) THEN Some(from_ticks(r.v)) ELSE Some(from_ticks(DURATION_MAX))

\* self.ticks.checked_add(duration).map(Self::from_ticks)
Instant_checked_add(self, duration) ==
    LET r == Duration_checked_add(self.ticks, duration) IN
    IF IsSome(r) THEN Some(from_ticks(r.v)) ELSE None

\* self.ticks.checked_sub(duration).map(Self::from_ticks)
Instant_checked_sub(self, duration) ==
    LET r == Duration_checked_sub(self.ticks, duration) IN
    IF IsSome(r) THEN Some(from_ticks(r.v)) ELSE None

\* A variant that wraps around past Duration::MAX instead of panicking.
Instant_add_wrapping(self, other) ==
    LET r == Instant_checked_add(self, other) IN
    IF IsSome(r)
    THEN r.v
    ELSE from_ticks(from_nanos((ToNanos(self.ticks) + ToNanos(other))
                               % (ToNanos(DURATION_MAX) + 1)))

\* impl Add<Duration> for Instant: checked_add(other).expect(..)
Instant_add(self, other) ==
    LET r == Instant_checked_add(self, other) IN
    IF IsSome(r)
    THEN r.v
    ELSE Panic(<<"overflow while adding Duration to Instant">>)

\* impl Sub<Duration> for Instant: checked_sub(other).expect(..)
Instant_sub(self, other) ==
    LET r == Instant_checked_sub(self, other) IN
    IF IsSome(r)
    THEN r.v
    ELSE Panic(<<"underflow while subtracting Duration from Instant">>)

\* impl Sub<Instant> for Instant
Instant_sub_instant(self, other) == Instant_duration_since(self, other)

\* derive(PartialOrd, Ord) on Instant { ticks }
Instant_ge(x, y) == Duration_ge(x.ticks, y.ticks)

(* ----------------------------- SystemTime ------------------------------ *)

from_unix_duration(d) == [since_unix_epoch |-> d]

as_unix_duration(t) == t.since_unix_epoch

UNIX_EPOCH == from_unix_duration(ZERO)

SystemTimes == {from_unix_duration(d) : d \in Durations}

\* derive(PartialOrd, Ord) on SystemTime { since_unix_epoch }
SystemTime_ge(x, y) == Duration_ge(x.since_unix_epoch, y.since_unix_epoch)

\* A variant that compares with > where the code compares with >=.
SystemTime_duration_since_strict(self, earlier) ==
    IF /\ Duration_ge(self.since_unix_epoch, earlier.since_unix_epoch)
       /\ self.since_unix_epoch # earlier.since_unix_epoch
    THEN Ok(Duration_saturating_sub(self.since_unix_epoch, earlier.since_unix_epoch))
    ELSE Err(Duration_saturating_sub(earlier.since_unix_epoch, self.since_unix_epoch))

\* A panic inside the subtraction propagates out of duration_since.
SystemTime_duration_since(self, earlier) ==
    IF Duration_ge(self.since_unix_epoch, earlier.since_unix_epoch)
    THEN LET d == Duration_sub(self.since_unix_epoch, earlier.since_unix_epoch)
         IN  IF IsPanic(d) THEN d ELSE Ok(d)
    ELSE LET d == Duration_sub(earlier.since_unix_epoch, self.since_unix_epoch)
         IN  IF IsPanic(d) THEN d ELSE Err(d)

(* ------------------------- build configurations ------------------------ *)

\* "std"      : feature std on a hosted target; mod global is not compiled.
\* "std_wasm" : feature std on wasm32-unknown-unknown; the slot is a OnceLock.
\* "atomic"   : no std, target_has_atomic = "8"; the slot is
\*              NoStdGlobalTimeContext.
\* "fallback" : no std, no atomics; the slot is a static mut, to be used
\*              from one thread of control only.
Configs == {"std", "std_wasm", "atomic", "fallback"}

\* lib.rs compiles and exports mod global under these configurations.
HasGlobal(c) == c # "std"

\* now() reads the operating system's clock under these configurations.
UsesOsClock(c) == c = "std"

Threads == 1..NumThreads

\* The &'static dyn TimeContext a thread passes to set: each caller has a
\* context of its own.
context(t) == t

Contexts == {context(t) : t \in Threads}

UNINITIALIZED == 0

INITIALIZING == 1

READY == 2

(* -------------------------------- state -------------------------------- *)

VARIABLES
    cfg,          \* the build configuration, fixed at start
    state,        \* NoStdGlobalTimeContext.state (AtomicU8)
    value,        \* NoStdGlobalTimeContext.value (UnsafeCell<Option<ctx>>)
    cell,         \* GLOBAL_TIME_CONTEXT as OnceLock (std) or static mut
    START,        \* std_now_ticks' OnceLock<std::time::Instant>; in NowSpec
                  \* also the test context's TEST_START
    clock,        \* raw reading of the monotonic time source
    pc,           \* per thread: where it is in its current call
    op,           \* per thread: the call it runs or ran last
    st,           \* per thread: get's local `state`, the state it loaded last
    ret,          \* per thread: what its last call returned
    obs,          \* per thread: what now() was given by its sources
    fresh,        \* per thread: its call started after some set had returned
    calls,        \* calls started so far
    nOk,          \* set calls that returned Ok
    firstOk,      \* the context of the first set that returned Ok
    writers,      \* threads that wrote the value cell
    setStarted,   \* some set call has started
    setReturned,  \* some set call has returned
    lhs,          \* ValueSpec: the first operand
    rhs,          \* ValueSpec: the second operand
    res,          \* ValueSpec: the operation applied and its result
    seq           \* NowSpec: what the Instant::now() calls returned, in order

slotVars == <<state, value, cell>>

clockVars == <<START, clock>>

threadVars == <<pc, op, st, ret, obs, fresh>>

ghostVars == <<calls, nOk, firstOk, writers, setStarted, setReturned>>

valueVars == <<lhs, rhs, res, seq>>

vars == <<cfg, slotVars, clockVars, threadVars, ghostVars, valueVars>>

NoObs == [got |-> None, reading |-> None, os |-> None]

\* The state after construction, but for the configuration and the operands.
Constructed ==
    /\ state = UNINITIALIZED
    /\ value = None
    /\ cell = None
    /\ START = None
    /\ clock = 0
    /\ pc = [t \in Threads |-> "idle"]
    /\ op = [t \in Threads |-> "none"]
    /\ st = [t \in Threads |-> UNINITIALIZED]
    /\ ret = [t \in Threads |-> NoRet]
    /\ obs = [t \in Threads |-> NoObs]
    /\ fresh = [t \in Threads |-> FALSE]
    /\ calls = 0
    /\ nOk = 0
    /\ firstOk = None
    /\ writers = {}
    /\ setStarted = FALSE
    /\ setReturned = FALSE
    /\ seq = <<>>

Init ==
    /\ cfg \in Configs
    /\ Constructed
    /\ lhs = ZERO
    /\ rhs = ZERO
    /\ res = NoRet

\* The fallback slot is for single-threaded startup: one thread runs there.
Runs(t) == cfg = "fallback" => t = 1

\* A thread may start a call.
CanCall(t) == pc[t] = "idle" /\ calls < MaxCalls /\ Runs(t)

\* What the registration slot holds, as a reader that waits out a set in
\* progress sees it.
Slot ==
    IF cfg = "atomic"
    THEN IF state = READY THEN value ELSE None
    ELSE cell

GlobalTimeContextAlreadySet == "GlobalTimeContextAlreadySet"

\* Bookkeeping of a call that starts.
Begin(t, o) ==
    /\ op' = [op EXCEPT ![t] = o]
    /\ fresh' = [fresh EXCEPT ![t] = setReturned]
    /\ calls' = calls + 1

\* Bookkeeping of a set call that returns r.
SetReturns(t, c, r) ==
    /\ ret' = [ret EXCEPT ![t] = r]
    /\ setReturned' = TRUE
    /\ nOk' = IF r.kind = "Ok" THEN nOk + 1 ELSE nOk
    /\ firstOk' = IF r.kind = "Ok" /\ firstOk = None THEN Some(c) ELSE firstOk

(* ------------------- set_global_time_context: atomic ------------------- *)

\* A compare_exchange that also succeeds on a populated slot.
CasSucceeds_repopulates(s) == s # INITIALIZING

\* A compare_exchange that also succeeds while another set is in progress.
CasSucceeds_unguarded(s) == s # READY

\* compare_exchange(UNINITIALIZED, INITIALIZING, ..) is Ok on this state.
CasSucceeds(s) == s = UNINITIALIZED

\* compare_exchange(UNINITIALIZED, INITIALIZING): the call's first step.
Set_cas(t) ==
    /\ cfg = "atomic"
    /\ CanCall(t)
    /\ Begin(t, "set")
    /\ setStarted' = TRUE
    /\ IF CasSucceeds(state)
       THEN /\ state' = INITIALIZING
            /\ pc' = [pc EXCEPT ![t] = "set_write"]
       ELSE /\ state' = state
            /\ pc' = [pc EXCEPT ![t] = "set_spin"]
    /\ UNCHANGED <<cfg, st, value, cell, clockVars, ret, obs, nOk, firstOk, writers,
                   setReturned, valueVars>>

\* *self.value.get() = Some(context)
Set_write(t) ==
    /\ pc[t] = "set_write"
    /\ value' = Some(context(t))
    /\ writers' = writers \cup {t}
    /\ pc' = [pc EXCEPT ![t] = "set_store"]
    /\ UNCHANGED <<cfg, st, state, cell, clockVars, op, ret, obs, fresh, calls,
                   nOk, firstOk, setStarted, setReturned, valueVars>>

\* A winner that never publishes READY.
Published_never == INITIALIZING

\* The state the winner publishes once the value is written.
Published == READY

\* self.state.store(READY, Release); Ok(())
Set_store(t) ==
    /\ pc[t] = "set_store"
    /\ state' = Published
    /\ pc' = [pc EXCEPT ![t] = "idle"]
    /\ SetReturns(t, context(t), Ok("unit"))
    /\ UNCHANGED <<cfg, st, value, cell, clockVars, op, obs, fresh, calls,
                   writers, setStarted, valueVars>>

\* while self.state.load(Acquire) == INITIALIZING { spin_loop() }
\* Err(GlobalTimeContextAlreadySet)
Set_spin(t) ==
    /\ pc[t] = "set_spin"
    /\ IF state = INITIALIZING
       THEN UNCHANGED <<pc, ret, setReturned, nOk, firstOk>>
       ELSE /\ pc' = [pc EXCEPT ![t] = "idle"]
            /\ SetReturns(t, context(t), Err(GlobalTimeContextAlreadySet))
    /\ UNCHANGED <<cfg, st, slotVars, clockVars, op, obs, fresh, calls, writers,
                   setStarted, valueVars>>

(* ------------------ set_global_time_context: OnceLock ------------------ *)

\* GLOBAL_TIME_CONTEXT.set(context).map_err(|_| GlobalTimeContextAlreadySet)
Set_once(t) ==
    /\ cfg = "std_wasm"
    /\ CanCall(t)
    /\ Begin(t, "set")
    /\ setStarted' = TRUE
    /\ IF cell = None
       THEN /\ cell' = Some(context(t))
            /\ SetReturns(t, context(t), Ok("unit"))
       ELSE /\ cell' = cell
            /\ SetReturns(t, context(t), Err(GlobalTimeContextAlreadySet))
    /\ UNCHANGED <<cfg, st, state, value, clockVars, pc, obs, writers, valueVars>>

(* ----------------- set_global_time_context: static mut ------------------ *)

\* let current = ptr::read(GLOBAL_TIME_CONTEXT); if current.is_some() { Err }
Set_fb_read(t) ==
    /\ cfg = "fallback"
    /\ CanCall(t)
    /\ Begin(t, "set")
    /\ setStarted' = TRUE
    /\ IF IsSome(cell)
       THEN /\ pc' = pc
            /\ SetReturns(t, context(t), Err(GlobalTimeContextAlreadySet))
       ELSE /\ pc' = [pc EXCEPT ![t] = "set_fb_write"]
            /\ UNCHANGED <<ret, setReturned, nOk, firstOk>>
    /\ UNCHANGED <<cfg, st, slotVars, clockVars, obs, writers, valueVars>>

\* ptr::write(GLOBAL_TIME_CONTEXT, Some(context)); Ok(())
Set_fb_write(t) ==
    /\ pc[t] = "set_fb_write"
    /\ cell' = Some(context(t))
    /\ pc' = [pc EXCEPT ![t] = "idle"]
    /\ SetReturns(t, context(t), Ok("unit"))
    /\ UNCHANGED <<cfg, st, state, value, clockVars, op, obs, fresh, calls,
                   writers, setStarted, valueVars>>

(* -------------------------- global_time_context ------------------------ *)

\* The calls that look the registered context up: global_time_context
\* itself, and Instant::now / SystemTime::now where no OS clock is used.
Lookups == {"get", "instant_now", "system_now"}

\* The lookup of call o ends with r: global_time_context returns it, now()
\* goes on to ask the context it was given.
Looked(t, o, r) ==
    /\ ret' = [ret EXCEPT ![t] = r]
    /\ pc' = [pc EXCEPT ![t] = IF o = "get" THEN "idle" ELSE "now_ctx"]

\* A reader that does not wait out a set in progress.
AfterLoad_nowait(s) ==
    IF s = UNINITIALIZED THEN "get_none" ELSE "get_read"

\* A reader with the READY test inverted.
AfterLoad_inverted(s) ==
    IF s = INITIALIZING THEN "get_spin"
    ELSE IF s = READY THEN "get_none"
    ELSE "get_read"

\* Where a reader goes after loading the state s.
AfterLoad(s) ==
    IF s = INITIALIZING THEN "get_spin"
    ELSE IF s = READY THEN "get_read"
    ELSE "get_none"

\* let mut state = self.state.load(Acquire): the call's first step.
Get_load(t, o) ==
    /\ cfg = "atomic"
    /\ CanCall(t)
    /\ Begin(t, o)
    /\ st' = [st EXCEPT ![t] = state]
    /\ IF AfterLoad(state) = "get_none"
       THEN Looked(t, o, None)
       ELSE /\ pc' = [pc EXCEPT ![t] = AfterLoad(state)]
            /\ ret' = ret
    /\ UNCHANGED <<cfg, slotVars, clockVars, obs, nOk, firstOk, writers,
                   setStarted, setReturned, valueVars>>

\* while state == INITIALIZING { spin_loop(); state = self.state.load(Acquire) }
Get_spin(t) ==
    /\ pc[t] = "get_spin"
    /\ st' = [st EXCEPT ![t] = state]
    /\ IF AfterLoad(state) = "get_none"
       THEN Looked(t, op[t], None)
       ELSE /\ pc' = [pc EXCEPT ![t] = AfterLoad(state)]
            /\ ret' = ret
    /\ UNCHANGED <<cfg, slotVars, clockVars, op, obs, fresh, calls,
                   ghostVars, valueVars>>

\* What a read of the value cell can give: the cell, or anything at all when
\* a write to it is in progress (a data race).
CellReads ==
    IF \E w \in Threads : pc[w] = "set_write"
    THEN {None, [kind |-> "torn"]} \cup {Some(c) : c \in Contexts}
    ELSE {value}

\* if state == READY { unsafe { *self.value.get() } }
Get_read(t) ==
    /\ pc[t] = "get_read"
    /\ \E r \in CellReads : Looked(t, op[t], r)
    /\ UNCHANGED <<cfg, st, slotVars, clockVars, op, obs, fresh, calls,
                   ghostVars, valueVars>>

\* GLOBAL_TIME_CONTEXT.get().copied()
Get_once(t, o) ==
    /\ cfg = "std_wasm"
    /\ CanCall(t)
    /\ Begin(t, o)
    /\ Looked(t, o, cell)
    /\ UNCHANGED <<cfg, st, slotVars, clockVars, obs, nOk, firstOk, writers,
                   setStarted, setReturned, valueVars>>

\* unsafe { ptr::read(GLOBAL_TIME_CONTEXT) }
Get_fb(t, o) ==
    /\ cfg = "fallback"
    /\ CanCall(t)
    /\ Begin(t, o)
    /\ Looked(t, o, cell)
    /\ UNCHANGED <<cfg, st, slotVars, clockVars, obs, nOk, firstOk, writers,
                   setStarted, setReturned, valueVars>>

(* ------------------- Instant::now and SystemTime::now ------------------ *)

\* The panic messages, as the phrases they are made of.
panic_missing_system_time ==
    Panic(<<"no", "wall-clock time source", "is available; install one with",
            "universal_time::set_global_time_context()">>)

\* A monotonic-clock panic that carries the wall-clock message.
panic_missing_instant_swapped == panic_missing_system_time

panic_missing_instant ==
    Panic(<<"no", "monotonic clock", "is available; install one with",
            "universal_time::set_global_time_context()">>)

\* START.get_or_init(std::time::Instant::now).elapsed()
std_now_ticks(start, now) == from_nanos(now - start)

\* std::time::SystemTime::now().duration_since(UNIX_EPOCH)
\*     .unwrap_or(Duration::ZERO), w the wall clock relative to the epoch
std_since_unix_epoch(w) == IF w >= 0 THEN from_nanos(w) ELSE ZERO

\* get_time_provider().instant(): the reading of the registered context,
\* fatal when none is registered or the context has no reading.
provider_instant(got, reading) ==
    IF IsSome(got) /\ IsSome(reading) THEN reading.v ELSE panic_missing_instant

\* get_time_provider().system_time()
provider_system_time(got, reading) ==
    IF IsSome(got) /\ IsSome(reading)
    THEN reading.v
    ELSE panic_missing_system_time

\* An Instant::now that asks the registered context under every cfg.
Instant_now_provider_only(c, o, got, reading) == provider_instant(got, reading)

\* Instant::now: o the operating system's reading where one is used.
Instant_now(c, o, got, reading) ==
    IF UsesOsClock(c) THEN from_ticks(o.v) ELSE provider_instant(got, reading)

\* SystemTime::now
SystemTime_now(c, o, got, reading) ==
    IF UsesOsClock(c)
    THEN from_unix_duration(o.v)
    ELSE provider_system_time(got, reading)

\* MonotonicClock::instant of a registered context at raw reading k: the
\* ticks since boot, or None when it has no reading.
Context_instant(k, avail) ==
    IF avail THEN Some(from_ticks(from_nanos(k))) ELSE None

\* WallClock::system_time of a registered context
Context_system_time(w, avail) ==
    IF avail THEN Some(from_unix_duration(from_nanos(w))) ELSE None

\* A call that ends with r returns it, or unwinds its thread on a panic.
Ends(t, r) ==
    /\ ret' = [ret EXCEPT ![t] = r]
    /\ pc' = [pc EXCEPT ![t] = IF IsPanic(r) THEN "panicked" ELSE "idle"]

\* Instant::now with the OS clock: the first call fixes START.
Instant_now_std(t) ==
    /\ UsesOsClock(cfg)
    /\ CanCall(t)
    /\ Begin(t, "instant_now")
    /\ \E k1 \in clock..MaxClock :
         \E k2 \in k1..MaxClock :
           /\ START' = IF START = None THEN Some(k1) ELSE START
           /\ clock' = k2
           /\ LET o == Some(std_now_ticks(START'.v, k2)) IN
              /\ obs' = [obs EXCEPT ![t] = [got |-> None, reading |-> None, os |-> o]]
              /\ Ends(t, Instant_now(cfg, o, None, None))
    /\ UNCHANGED <<cfg, st, slotVars, nOk, firstOk, writers, setStarted,
                   setReturned, valueVars>>

\* SystemTime::now with the OS clock, which may stand before the epoch.
SystemTime_now_std(t) ==
    /\ UsesOsClock(cfg)
    /\ CanCall(t)
    /\ Begin(t, "system_now")
    /\ \E w \in (-1)..MaxClock :
         LET o == Some(std_since_unix_epoch(w)) IN
         /\ obs' = [obs EXCEPT ![t] = [got |-> None, reading |-> None, os |-> o]]
         /\ Ends(t, SystemTime_now(cfg, o, None, None))
    /\ UNCHANGED <<cfg, st, slotVars, clockVars, nOk, firstOk, writers,
                   setStarted, setReturned, valueVars>>

\* What the context found by the lookup can answer: nothing was asked when
\* no context was found.
Answers(got) ==
    IF IsSome(got)
    THEN {[k |-> k, avail |-> a] : k \in clock..MaxClock, a \in BOOLEAN}
    ELSE {[k |-> clock, avail |-> FALSE]}

\* now() once the lookup has returned: ask the context, return its reading.
Now_ctx(t) ==
    /\ pc[t] = "now_ctx"
    /\ \E a \in Answers(ret[t]) :
         LET got == ret[t]
             reading == IF op[t] = "instant_now"
                        THEN Context_instant(a.k, a.avail)
                        ELSE Context_system_time(a.k, a.avail)
         IN  /\ clock' = IF op[t] = "instant_now" THEN a.k ELSE clock
             /\ obs' = [obs EXCEPT ![t] = [got |-> got, reading |-> reading, os |-> None]]
             /\ Ends(t, IF op[t] = "instant_now"
                        THEN Instant_now(cfg, None, got, reading)
                        ELSE SystemTime_now(cfg, None, got, reading))
    /\ UNCHANGED <<cfg, st, slotVars, START, op, fresh, calls, ghostVars, valueVars>>

(* --------------------------- the specification ------------------------- *)

ThreadStep(t) ==
    \/ Set_cas(t)
    \/ Set_write(t)
    \/ Set_store(t)
    \/ Set_spin(t)
    \/ Set_once(t)
    \/ Set_fb_read(t)
    \/ Set_fb_write(t)
    \/ \E o \in Lookups : Get_load(t, o)
    \/ Get_spin(t)
    \/ Get_read(t)
    \/ \E o \in Lookups : Get_once(t, o)
    \/ \E o \in Lookups : Get_fb(t, o)
    \/ Instant_now_std(t)
    \/ SystemTime_now_std(t)
    \/ Now_ctx(t)

Next == \E t \in Threads : ThreadStep(t)

Spec == Init /\ [][Next]_vars

\* Every thread that can take a step that changes the state is scheduled.
FairSpec == Spec /\ \A t \in Threads : WF_vars(ThreadStep(t))

TypeOK ==
    /\ cfg \in Configs
    /\ state \in {UNINITIALIZED, INITIALIZING, READY}
    /\ calls \in 0..MaxCalls
    /\ clock \in 0..MaxClock

(* ------------------- the arithmetic of the value types ----------------- *)

\* Two durations since the reference point (Instant) or the epoch
\* (SystemTime); the operations below are applied to them.
ValueInit ==
    /\ cfg = "std"
    /\ Constructed
    /\ lhs \in Durations
    /\ rhs \in Durations
    /\ res = NoRet

Applied(name, r) ==
    /\ res' = [op |-> name, v |-> r]
    /\ UNCHANGED <<cfg, slotVars, clockVars, threadVars, ghostVars, lhs, rhs,
                   seq>>

\* from_ticks(lhs).duration_since(from_ticks(rhs))
Apply_duration_since ==
    Applied("duration_since",
            Instant_duration_since(from_ticks(lhs), from_ticks(rhs)))

\* from_ticks(lhs).checked_duration_since(from_ticks(rhs))
Apply_checked_duration_since ==
    Applied("checked_duration_since",
            Instant_checked_duration_since(from_ticks(lhs), from_ticks(rhs)))

\* from_ticks(lhs) - from_ticks(rhs)
Apply_sub_instant ==
    Applied("sub_instant",
            Instant_sub_instant(from_ticks(lhs), from_ticks(rhs)))

\* from_unix_duration(lhs).duration_since(from_unix_duration(rhs))
Apply_system_duration_since ==
    Applied("system_duration_since",
            SystemTime_duration_since(from_unix_duration(lhs),
                                      from_unix_duration(rhs)))

\* from_ticks(lhs).checked_add(rhs)
Apply_checked_add ==
    Applied("checked_add", Instant_checked_add(from_ticks(lhs), rhs))

\* from_ticks(lhs).checked_sub(rhs)
Apply_checked_sub ==
    Applied("checked_sub", Instant_checked_sub(from_ticks(lhs), rhs))

\* from_ticks(lhs).checked_add(rhs), then checked_sub(rhs) on the sum when
\* there is one: None, or Some of what checked_sub returned.
Apply_add_then_sub ==
    Applied("add_then_sub",
            LET end == Instant_checked_add(from_ticks(lhs), rhs) IN
            IF IsSome(end) THEN Some(Instant_checked_sub(end.v, rhs)) ELSE None)

\* from_ticks(lhs) + rhs
Apply_add ==
    Applied("add", Instant_add(from_ticks(lhs), rhs))

\* from_ticks(lhs) - rhs
Apply_sub ==
    Applied("sub", Instant_sub(from_ticks(lhs), rhs))

ValueNext ==
    \/ Apply_add
    \/ Apply_sub
    \/ Apply_checked_add
    \/ Apply_checked_sub
    \/ Apply_add_then_sub
    \/ Apply_duration_since
    \/ Apply_checked_duration_since
    \/ Apply_sub_instant
    \/ Apply_system_duration_since

ValueSpec == ValueInit /\ [][ValueNext]_vars

\* The operation whose result res holds.
Did(name) == res # NoRet /\ res.op = name

(* ------------------- NowSpec: now() calls in sequence ------------------ *)

\* TestContext's MonotonicClock::instant: the time elapsed since TEST_START,
\* which the first call fixes.
TestContext_instant(start, now) == Some(from_ticks(from_nanos(now - start)))

\* install_test_context() has run on thread 1 where the crate has a slot:
\* its set_global_time_context returned Ok(()).
NowInit ==
    /\ cfg \in Configs
    /\ state = IF cfg = "atomic" THEN READY ELSE UNINITIALIZED
    /\ value = IF cfg = "atomic" THEN Some(context(1)) ELSE None
    /\ cell = IF cfg \in {"std_wasm", "fallback"} THEN Some(context(1)) ELSE None
    /\ START = None
    /\ clock = 0
    /\ pc = [t \in Threads |-> "idle"]
    /\ op = [t \in Threads |-> IF HasGlobal(cfg) /\ t = 1 THEN "set" ELSE "none"]
    /\ st = [t \in Threads |-> UNINITIALIZED]
    /\ ret = [t \in Threads |-> IF HasGlobal(cfg) /\ t = 1 THEN Ok("unit") ELSE NoRet]
    /\ obs = [t \in Threads |-> NoObs]
    /\ fresh = [t \in Threads |-> FALSE]
    /\ calls = IF HasGlobal(cfg) THEN 1 ELSE 0
    /\ nOk = IF HasGlobal(cfg) THEN 1 ELSE 0
    /\ firstOk = IF HasGlobal(cfg) THEN Some(context(1)) ELSE None
    /\ writers = IF cfg = "atomic" THEN {1} ELSE {}
    /\ setStarted = HasGlobal(cfg)
    /\ setReturned = HasGlobal(cfg)
    /\ lhs = ZERO
    /\ rhs = ZERO
    /\ res = NoRet
    /\ seq = <<>>

\* What Instant::now() returns when the clock source reads k1 at
\* get_or_init of its reference point and k2 at elapsed(): under std the
\* crate's own START, otherwise the registered test context's TEST_START.
NowAt(k1, k2) ==
    LET start == IF START = None THEN k1 ELSE START.v IN
    IF UsesOsClock(cfg)
    THEN Instant_now(cfg, Some(std_now_ticks(start, k2)), None, None)
    ELSE Instant_now(cfg, None, Slot, TestContext_instant(start, k2))

\* The clock source is read at k1 and then at k2, never going back.
ClockReads(k1, k2) ==
    /\ START' = IF START = None THEN Some(k1) ELSE START
    /\ clock' = k2

\* let next = Instant::now();
Seq_now ==
    /\ Len(seq) < MaxCalls
    /\ \E k1 \in clock..MaxClock :
         \E k2 \in k1..MaxClock :
           /\ ClockReads(k1, k2)
           /\ seq' = Append(seq, NowAt(k1, k2))
    /\ UNCHANGED <<cfg, slotVars, threadVars, ghostVars, lhs, rhs, res>>

\* (earlier + d).elapsed(), earlier a result of now() and d a duration that
\* may put the instant ahead of the clock; d = 0 is earlier.elapsed().
Seq_elapsed ==
    /\ Len(seq) < MaxCalls
    /\ \E i \in 1..Len(seq) :
         \E n \in 0..MaxClock :
           \E k1 \in clock..MaxClock :
             \E k2 \in k1..MaxClock :
               LET self == Instant_add(seq[i], from_nanos(n))
                   now == NowAt(k1, k2)
               IN  /\ ~IsPanic(seq[i])
                   /\ ~IsPanic(self)
                   /\ ClockReads(k1, k2)
                   /\ seq' = Append(seq, now)
                   /\ res' = [op |-> "elapsed", self |-> self, now |-> now,
                              v |-> Instant_elapsed(self, now)]
    /\ UNCHANGED <<cfg, slotVars, threadVars, ghostVars, lhs, rhs>>

NowNext ==
    \/ Seq_now
    \/ Seq_elapsed

NowSpec == NowInit /\ [][NowNext]_vars

(* ----------------------- properties of ValueSpec ----------------------- *)

\* The operands as numbers of nanoseconds.
A == ToNanos(lhs)

B == ToNanos(rhs)

\* d is the well-formed duration of n nanoseconds.
IsDuration(d, n) == d \in Durations /\ ToNanos(d) = n

\* C8: a.duration_since(b) on SystemTime never panics; it is Ok(a - b) when
\* a >= b and Err(b - a) otherwise, so a later time gives Ok(k), an earlier
\* one Err(k), and the duration since UNIX_EPOCH is always Ok.
C8_SystemTimeDuality ==
    Did("system_duration_since") =>
        /\ ~IsPanic(res.v)
        /\ A >= B => res.v.kind = "Ok" /\ IsDuration(res.v.v, A - B)
        /\ A < B => res.v.kind = "Err" /\ IsDuration(res.v.v, B - A)
        /\ from_unix_duration(rhs) = UNIX_EPOCH => res.v.kind = "Ok"

\* The earlier time is ahead in seconds and behind in nanoseconds: the
\* reverse difference borrows a second.
C8_Witness ==
    /\ Did("system_duration_since")
    /\ lhs.secs < rhs.secs
    /\ lhs.nanos > rhs.nanos
    /\ res.v.kind = "Err"
    /\ ToNanos(res.v.v) = B - A

\* C9: a.duration_since(b) and a - b on Instant both are a_ticks - b_ticks
\* when a is not before b and zero when a is before b; neither fails.
C9_InstantSaturates ==
    Did("duration_since") \/ Did("sub_instant") =>
        /\ ~IsPanic(res.v)
        /\ A >= B => IsDuration(res.v, A - B)
        /\ A < B => res.v = ZERO

\* The operator form applied to an instant before the other one.
C9_Witness ==
    /\ Did("sub_instant")
    /\ A < B
    /\ lhs.nanos > rhs.nanos
    /\ res.v = ZERO

\* C10: checked_duration_since(earlier) is present iff self >= earlier
\* (zero for equal instants), and when present equals
\* self.duration_since(earlier).
C10_CheckedDuality ==
    Did("checked_duration_since") =>
        /\ IsSome(res.v) <=> A >= B
        /\ IsSome(res.v) <=> Instant_ge(from_ticks(lhs), from_ticks(rhs))
        /\ A = B => res.v = Some(ZERO)
        /\ IsSome(res.v) =>
               /\ IsDuration(res.v.v, A - B)
               /\ res.v.v = Instant_duration_since(from_ticks(lhs), from_ticks(rhs))

\* Equal instants, other than the reference point itself: present and zero.
C10_Witness ==
    /\ Did("checked_duration_since")
    /\ lhs = rhs
    /\ lhs # ZERO
    /\ res.v = Some(ZERO)

\* The largest number of nanoseconds a Duration holds.
MaxNanos == SecsMax * NANOS_PER_SEC + (NANOS_PER_SEC - 1)

\* i is the well-formed Instant whose ticks are n nanoseconds.
IsInstant(i, n) == i \in Instants /\ ToNanos(i.ticks) = n

\* C11: checked_add(d) is absent exactly when i_ticks + d exceeds the
\* largest duration and otherwise the Instant at i_ticks + d; checked_sub(d)
\* is absent exactly when d > i_ticks and otherwise the Instant at
\* i_ticks - d; checked_sub(d) of a present checked_add(d) returns i.
C11_CheckedArithmetic ==
    /\ Did("checked_add") =>
          /\ res.v = None <=> A + B > MaxNanos
          /\ IsSome(res.v) => IsInstant(res.v.v, A + B)
    /\ Did("checked_sub") =>
          /\ res.v = None <=> B > A
          /\ IsSome(res.v) => IsInstant(res.v.v, A - B)
    /\ Did("add_then_sub") =>
          /\ res.v = None <=> A + B > MaxNanos
          /\ IsSome(res.v) => res.v.v = Some(from_ticks(lhs))

\* One nanosecond added to the instant at Duration::MAX: absent.
C11_Witness ==
    /\ Did("checked_add")
    /\ lhs = DURATION_MAX
    /\ B = 1
    /\ res.v = None

\* C12: i + d and i - d return the Instant checked_add(d) and checked_sub(d)
\* give when these are present; when they are absent the operators panic
\* with their fixed messages and return no wrapped value.
C12_OperatorsAgree ==
    /\ Did("add") =>
          LET checked == Instant_checked_add(from_ticks(lhs), rhs) IN
          /\ A + B <= MaxNanos =>
                /\ IsInstant(res.v, A + B)
                /\ checked = Some(res.v)
          /\ A + B > MaxNanos =>
                /\ checked = None
                /\ res.v = Panic(<<"overflow while adding Duration to Instant">>)
    /\ Did("sub") =>
          LET checked == Instant_checked_sub(from_ticks(lhs), rhs) IN
          /\ B <= A =>
                /\ IsInstant(res.v, A - B)
                /\ checked = Some(res.v)
          /\ B > A =>
                /\ checked = None
                /\ res.v =
                     Panic(<<"underflow while subtracting Duration from Instant">>)

\* One nanosecond subtracted from the instant at zero: the underflow panic.
C12_Witness ==
    /\ Did("sub")
    /\ lhs = ZERO
    /\ B = 1
    /\ IsPanic(res.v)

(* ------------------------ properties of NowSpec ------------------------ *)

\* C13: of Instant::now() calls made one after another against a clock that
\* never goes back, each result is >= the one before; elapsed() on an instant
\* is now().duration_since(it): the time from it to now, and zero, not a
\* failure, when now is behind it.
C13_MonotonicNow ==
    /\ \A i \in 1..Len(seq) : seq[i] \in Instants
    /\ \A i \in 1..(Len(seq) - 1) :
          /\ Instant_ge(seq[i + 1], seq[i])
          /\ ToNanos(seq[i + 1].ticks) >= ToNanos(seq[i].ticks)
    /\ Did("elapsed") =>
          LET from == ToNanos(res.self.ticks)
              to == ToNanos(res.now.ticks)
          IN  /\ \E i \in 1..Len(seq) : seq[i] = res.now
              /\ res.v = Instant_duration_since(res.now, res.self)
              /\ IsDuration(res.v, IF to >= from THEN to - from ELSE 0)

\* A later now() was strictly after an earlier one, and elapsed() was then
\* called on an instant ahead of the clock and returned zero.
C13_Witness ==
    /\ Did("elapsed")
    /\ Len(seq) = 3
    /\ ToNanos(seq[2].ticks) > ToNanos(seq[1].ticks)
    /\ ToNanos(res.self.ticks) > ToNanos(res.now.ticks)
    /\ res.v = ZERO

(* -------------------------- properties of Spec ------------------------- *)

\* Thread t's last call was o and has returned.
Returned(t, o) == op[t] = o /\ pc[t] = "idle"

\* Thread t holds the result of a lookup: global_time_context has returned
\* to the caller, or to now(), which has not asked the context yet.
LookedUp(t) == Returned(t, "get") \/ pc[t] = "now_ctx"

\* Thread t is inside set.
InSet(t) == pc[t] \in {"set_write", "set_store", "set_spin", "set_fb_write"}

\* C1: the first set succeeds and stores its context; a set that starts
\* after one has returned fails with GlobalTimeContextAlreadySet; what get
\* returns is the context of the first successful set; a populated slot is
\* never cleared or replaced.
C1_SetOnce ==
    /\ [](setReturned => nOk = 1 /\ IsSome(firstOk) /\ Slot = firstOk)
    /\ [](\A t \in Threads :
            Returned(t, "set") /\ fresh[t] =>
                ret[t] = Err(GlobalTimeContextAlreadySet))
    /\ [](\A t \in Threads :
            LookedUp(t) /\ IsSome(ret[t]) => ret[t] = firstOk)
    /\ [][IsSome(Slot) => Slot' = Slot]_vars

\* A second set has failed and a get after it returns the first context.
C1_Witness ==
    \E t \in Threads : \E u \in Threads :
        /\ Returned(t, "set")
        /\ fresh[t]
        /\ ret[t] = Err(GlobalTimeContextAlreadySet)
        /\ Returned(u, "get")
        /\ fresh[u]
        /\ ret[u] = firstOk
        /\ firstOk # Some(context(t))

\* C2: of the set calls racing on the empty atomic-backed slot exactly one
\* returns Ok, the others return GlobalTimeContextAlreadySet; the stored
\* context is the winner's and only the winner writes the value cell.
C2_OneWinner ==
    cfg = "atomic" =>
        /\ nOk <= 1
        /\ Cardinality(writers) <= 1
        /\ setStarted /\ (\A t \in Threads : ~InSet(t)) => nOk = 1
        /\ \A t \in Threads :
             Returned(t, "set") =>
                \/ ret[t] = Err(GlobalTimeContextAlreadySet)
                \/ /\ ret[t] = Ok("unit")
                   /\ writers = {t}
                   /\ value = Some(context(t))
                   /\ firstOk = Some(context(t))
        /\ IsSome(value) =>
             \E w \in Threads : writers = {w} /\ value = Some(context(w))

\* Two sets raced: the loser started before the winner had returned.
C2_Witness ==
    /\ cfg = "atomic"
    /\ \E t \in Threads : \E u \in Threads :
        /\ Returned(t, "set")
        /\ ~fresh[t]
        /\ ret[t] = Err(GlobalTimeContextAlreadySet)
        /\ Returned(u, "set")
        /\ ret[u] = Ok("unit")

\* C3: a get that runs beside a set never sees a partially written slot: it
\* reads the value cell only in state READY, never while a write is under
\* way, and returns absent (it loaded UNINITIALIZED) or the whole context
\* the winner stored.
C3_NoPartialRead ==
    cfg = "atomic" =>
        /\ \A t \in Threads : pc[t] = "get_read" => state = READY
        /\ \A t \in Threads : \A w \in Threads :
             ~(pc[t] = "get_read" /\ pc[w] = "set_write")
        /\ \A t \in Threads :
             LookedUp(t) =>
                \/ ret[t] = None /\ st[t] = UNINITIALIZED
                \/ /\ st[t] = READY
                   /\ IsSome(ret[t])
                   /\ ret[t] = value
                   /\ \E w \in Threads :
                        writers = {w} /\ ret[t] = Some(context(w))

\* A get that waited while the set was in progress has returned the context.
C3_Witness ==
    /\ cfg = "atomic"
    /\ \E t \in Threads :
        /\ Returned(t, "get")
        /\ ~fresh[t]
        /\ IsSome(ret[t])
        /\ nOk = 1
        /\ calls = 2

Spinning(t) == pc[t] \in {"set_spin", "get_spin"}

\* C4: a set that lost the race and a get that arrived during a set leave
\* their spin-wait and return, every thread being scheduled fairly.
C4_SpinEnds ==
    \A t \in Threads : Spinning(t) ~> pc[t] \in {"idle", "panicked"}

\* A loser spins while the winner has not published READY.
C4_Witness ==
    \E t \in Threads : pc[t] = "set_spin" /\ state = INITIALIZING

\* C5: a lookup started after any set has returned, with Ok or with the
\* error, finds a context; one that returns before any set has started
\* finds none.
C5_PresentAfterSet ==
    \A t \in Threads :
        LookedUp(t) =>
            /\ fresh[t] => IsSome(ret[t])
            /\ ~setStarted => ret[t] = None

\* The only set that has returned is a loser's, and a get started after it
\* has found the winner's context.
C5_Witness ==
    \E t \in Threads : \E u \in Threads :
        /\ cfg = "atomic"
        /\ Returned(t, "get")
        /\ fresh[t]
        /\ IsSome(ret[t])
        /\ Returned(u, "set")
        /\ ret[u] = Err(GlobalTimeContextAlreadySet)
        /\ ret[t] # Some(context(u))

\* Thread t's last call was now() and has ended, by a return or a panic.
NowDone(t) ==
    /\ op[t] \in {"instant_now", "system_now"}
    /\ pc[t] \in {"idle", "panicked"}

\* The registered source was found and gave a reading.
SourceRead(t) == IsSome(obs[t].got) /\ IsSome(obs[t].reading)

\* The value now() makes of the OS clock's reading d.
OfOsReading(t, d) ==
    IF op[t] = "instant_now" THEN from_ticks(d) ELSE from_unix_duration(d)

Names(m, p) == \E i \in DOMAIN m : m[i] = p

\* The capability a now() call needs, as the messages name it.
Capability(o) ==
    IF o = "instant_now" THEN "monotonic clock" ELSE "wall-clock time source"

====
